---------------------------- MODULE Spec2Model ----------------------------
(***************************************************************************)
(* MathBot2001: the round scheduler (worker thread) and the answer         *)
(* handling (transport callbacks) of src/src/MathBot2001.cpp.              *)
(*                                                                         *)
(* Three threads act on the object's state: the worker thread (Worker),    *)
(* the transport's thread, which delivers the Twitch::Messaging::User      *)
(* callbacks one at a time, and the main thread, which calls AwaitLogOut   *)
(* and destroys the object.  Worker takes the mutex; Message does not, so  *)
(* every access Message makes to the shared fields is a step of its own    *)
(* that interleaves with the worker's.                                     *)
(*                                                                         *)
(* Time is counted in seconds; the clock advances in steps of roundTime.   *)
(* Text that is compared character by character (the answer, a tell) is a  *)
(* sequence of one-character strings; text that is only sent is a string.  *)
(***************************************************************************)
EXTENDS Integers, Sequences, FiniteSets, TLC

\* ------------------------------------------------------------ bounds
\* The clock is advanced at most MaxTicks times.
MaxTicks == 4
MaxPlayTicks == 7
\* The transport delivers at most MaxCallbacks callbacks.
MaxCallbacks == 3

\* ------------------------------------------------- program constants
\* Stands for std::numeric_limits<double>::max(): above every clock reading.
DoubleMax == 1000000
minQuestionCooldown == 45
maxQuestionCooldown == 180
roundTime == 15
\* The ranges of the three uniform_int_distribution draws of StartNewRound.
MinFactor == 2
MinOffset == 2
MaxOffset == 97

BOT_NICKNAME == "MathBot2001"

\* ------------------------------------------------------ input spaces
\* The draws of the random generator that the model explores.
FactorDraws == {MinFactor}
OffsetDraws == {MinOffset, MaxOffset}
CooldownDraws == {minQuestionCooldown, maxQuestionCooldown}

\* The chat users who send tells, and the users named in Join and Leave.
Nicknames == {"alice", "bob"}
MembershipUsers == {"mathbot2001", "MathBot2001", "alice"}

\* The tells: both answers the draws can give, a text that is numerically
\* an answer without being its string, and a text that is no number.
Tells == { <<"6">>, <<"1", "0", "1">>, <<"0", "6">>, <<"h", "i">> }

MaxTime == MaxTicks * roundTime

\* In the specification of the timely worker the clock is advanced at most
\* MaxPlayTicks times.
MaxPlayTime == MaxPlayTicks * roundTime

VARIABLES
    \* ---- fields of MathBot2001::Impl
    contestants,                         \* std::map nickname -> Contestant
    nicknamesOfParticipantsThisRound,    \* std::set of nicknames
    winnerThisRound,                     \* "" when empty
    roundComplete,
    roundScored,
    nextQuestionTime,
    currentScoringTime,
    answer,
    stopWorker,
    loggedOut,
    joinable,                            \* workerThread.joinable()
    mutex,                               \* owner of the mutex, or "free"
    \* ---- the worker thread: its position and locals
    wpc,
    wl,
    \* ---- the transport's thread: its position and the callback's arguments
    cpc,
    call,
    \* ---- the environment
    clock,                               \* timeKeeper->GetCurrentTime()
    sent,                                \* the last tmi.SendMessage: kind and text
    joinRequests,                        \* number of tmi.Join(channel) calls
    logOutNotices,                       \* number of "Logged out." diagnostics
    nCallbacks,                          \* callbacks delivered so far
    mainThreadEvents,                    \* number of mainThreadEvent.notify_one calls
    \* ---- the main thread: its position, and whether the object still exists
    mpc,
    teardown,
    \* ---- history (read by the properties only)
    hist

progVars == << contestants, nicknamesOfParticipantsThisRound, winnerThisRound,
               roundComplete, roundScored, nextQuestionTime, currentScoringTime,
               answer, stopWorker, loggedOut, joinable, mutex >>
roundVars == << contestants, nicknamesOfParticipantsThisRound, winnerThisRound,
                roundComplete, roundScored, nextQuestionTime, currentScoringTime,
                answer >>
envVars == << clock, sent, joinRequests, logOutNotices >>
mainVars == << mainThreadEvents, mpc, teardown >>
vars == << contestants, nicknamesOfParticipantsThisRound, winnerThisRound,
           roundComplete, roundScored, nextQuestionTime, currentScoringTime,
           answer, stopWorker, loggedOut, joinable, mutex, wpc, wl, cpc, call,
           clock, sent, joinRequests, logOutNotices, nCallbacks,
           mainThreadEvents, mpc, teardown, hist >>

\* ------------------------------------------------------------ helpers

Digits == <<"0", "1", "2", "3", "4", "5", "6", "7", "8", "9">>
DigitSet == {Digits[i] : i \in 1..10}

\* sprintf("%d", n) for n >= 0, as a sequence of characters.
RECURSIVE FormatDecimal(_)
FormatDecimal(n) ==
    IF n < 10 THEN << Digits[n + 1] >>
    ELSE Append(FormatDecimal(n \div 10), Digits[(n % 10) + 1])

\* StringExtensions::ToInteger(tell, n) == Success: an optional sign and
\* then one or more decimal digits.
ToIntegerSucceeds(tell) ==
    LET body == IF Len(tell) > 0 /\ tell[1] \in {"-", "+"}
                THEN SubSeq(tell, 2, Len(tell)) ELSE tell
    IN  /\ Len(body) > 0
        /\ \A i \in 1..Len(body) : body[i] \in DigitSet

\* The value of a sequence of decimal digits.
RECURSIVE DigitsValue(_)
DigitsValue(body) ==
    IF Len(body) = 0 THEN 0
    ELSE 10 * DigitsValue(SubSeq(body, 1, Len(body) - 1))
            + (CHOOSE d \in 0..9 : Digits[d + 1] = body[Len(body)])

\* The number StringExtensions::ToInteger stores for a tell it accepts.
ToIntegerValue(tell) ==
    IF tell[1] = "-" THEN 0 - DigitsValue(SubSeq(tell, 2, Len(tell)))
    ELSE IF tell[1] = "+" THEN DigitsValue(SubSeq(tell, 2, Len(tell)))
    ELSE DigitsValue(tell)

\* StringExtensions::ToLower on the user names of the model.
ToLower(s) == IF s = "MathBot2001" THEN "mathbot2001" ELSE s

\* A Contestant as its default constructor leaves it.
NewContestant == [points |-> 0, pointDelta |-> 0]

\* contestants[nickname]: std::map::operator[] creates a missing entry.
Entry(c, nickname) ==
    IF nickname \in DOMAIN c THEN c ELSE c @@ (nickname :> NewContestant)

\* The order of std::set<std::string> on the nicknames; begin() ranks 0.
SortedNicknames == << "alice", "bob" >>
Rank(n) ==
    IF n = "" THEN 0
    ELSE CHOOSE i \in 1..Len(SortedNicknames) : SortedNicknames[i] = n
Before(a, b) == Rank(a) < Rank(b)

\* std::set iteration: the element that follows cursor ("" is begin()).
NextInSet(s, cursor) ==
    LET later == {n \in s : Before(cursor, n)}
    IN  IF later = {} THEN ""
        ELSE CHOOSE n \in later : \A m \in later : m = n \/ Before(n, m)

NoCall == [user |-> "", tell |-> <<>>, after |-> ""]
NoLocals == [lastAnswer |-> <<>>, question |-> "", cursor |-> "",
             firstLoser |-> TRUE, buffer |-> ""]
NothingSent == [kind |-> "none", text |-> ""]

ZeroPerNick == [n \in Nicknames |-> 0]
NoResult == [round |-> 0, winner |-> "", text |-> "", losers |-> << >>]
NoHistory == [round |-> 0,
              wrongs |-> ZeroPerNick,
              correctStart |-> {},
              attemptSeen |-> FALSE,
              applied |-> ZeroPerNick,
              lastTell |-> "none",
              atClose |-> [points |-> ZeroPerNick, deltas |-> ZeroPerNick,
                           participants |-> {}],
              listed |-> << >>,
              result |-> NoResult,
              openedAnswer |-> << >>,
              openedLate |-> FALSE,
              logOuts |-> 0]

Points(c, n) == IF n \in DOMAIN c THEN c[n].points ELSE 0
PointDelta(c, n) == IF n \in DOMAIN c THEN c[n].pointDelta ELSE 0

Init ==
    /\ contestants = << >>
    /\ nicknamesOfParticipantsThisRound = {}
    /\ winnerThisRound = ""
    /\ roundComplete = TRUE
    /\ roundScored = TRUE
    /\ nextQuestionTime = DoubleMax
    /\ currentScoringTime = DoubleMax
    /\ answer = << >>
    /\ stopWorker = FALSE
    /\ loggedOut = FALSE
    /\ joinable = FALSE
    /\ mutex = "free"
    /\ wpc = "none"
    /\ wl = NoLocals
    /\ cpc = "idle"
    /\ call = NoCall
    /\ clock = 0
    /\ sent = NothingSent
    /\ joinRequests = 0
    /\ logOutNotices = 0
    /\ nCallbacks = 0
    /\ mainThreadEvents = 0
    /\ mpc = "idle"
    /\ teardown = "none"
    /\ hist = NoHistory

\* ---------------------------------------------------------- the clock

Tick ==
    /\ clock + roundTime <= MaxTime
    /\ clock' = clock + roundTime
    /\ UNCHANGED << progVars, wpc, wl, cpc, call, sent, joinRequests,
                    logOutNotices, nCallbacks, hist >>
    /\ UNCHANGED mainVars

\* The clock seen by a worker that polls every 50 ms (lines 32, 316-320):
\* a round time passes only while no worker runs or while the worker waits
\* with nothing due, so the worker never sleeps through a due time.
TimelyTick ==
    /\ clock + roundTime <= MaxPlayTime
    /\ \/ wpc \in {"none", "done"}
       \/ /\ wpc = "waiting"
          /\ clock < nextQuestionTime
          /\ clock < currentScoringTime \/ roundScored
    /\ clock' = clock + roundTime
    /\ UNCHANGED << progVars, wpc, wl, cpc, call, sent, joinRequests,
                    logOutNotices, nCallbacks, hist >>
    /\ UNCHANGED mainVars

\* ------------------------------------------- the transport's callbacks
\* Each callback is delivered by the transport's thread when the previous
\* one has returned.

Deliverable ==
    /\ cpc = "idle"
    /\ nCallbacks < MaxCallbacks

\* The worker is inside StartNewRound, or inside the scoring branch.
InStartNewRound == wpc \in {"clear_participants", "clear_winner", "draw", "open"}
InScoring == wpc \in {"close", "apply", "list", "announce"}

\* StartWorker without line 225: nextQuestionTime keeps its value.
StartWorkerKeepingTime ==
    IF joinable
    THEN UNCHANGED << stopWorker, nextQuestionTime, joinable, wpc >>
    ELSE /\ stopWorker' = FALSE
         /\ UNCHANGED nextQuestionTime
         /\ joinable' = TRUE
         /\ wpc' = "lock"

\* StartWorker, lines 219-227.
StartWorker ==
    IF joinable
    THEN UNCHANGED << stopWorker, nextQuestionTime, joinable, wpc >>
    ELSE /\ stopWorker' = FALSE
         /\ nextQuestionTime' = clock
         /\ joinable' = TRUE
         /\ wpc' = "lock"

\* LogIn with a call of StartWorker before line 409.
LogInStartingWorker ==
    /\ Deliverable
    /\ nCallbacks' = nCallbacks + 1
    /\ joinRequests' = joinRequests + 1
    /\ StartWorker
    /\ UNCHANGED << contestants, nicknamesOfParticipantsThisRound, winnerThisRound,
                    roundComplete, roundScored, currentScoringTime, answer,
                    loggedOut, mutex, wl, cpc, call, clock, sent, logOutNotices,
                    hist >>
    /\ UNCHANGED mainVars

\* LogIn, lines 407-410.
LogIn ==
    /\ Deliverable
    /\ nCallbacks' = nCallbacks + 1
    /\ joinRequests' = joinRequests + 1
    /\ UNCHANGED << progVars, wpc, wl, cpc, call, clock, sent, logOutNotices, hist >>
    /\ UNCHANGED mainVars

\* Join without the test of the user (line 426 left out).
JoinAnyUser(user) ==
    /\ Deliverable
    /\ nCallbacks' = nCallbacks + 1
    /\ StartWorker
    /\ UNCHANGED << contestants, nicknamesOfParticipantsThisRound, winnerThisRound,
                    roundComplete, roundScored, currentScoringTime, answer,
                    loggedOut, mutex, wl, cpc, call, envVars, hist >>
    /\ UNCHANGED mainVars

\* Join, lines 423-429.
Join(user) ==
    /\ Deliverable
    /\ nCallbacks' = nCallbacks + 1
    /\ IF user = ToLower(BOT_NICKNAME)
       THEN StartWorker
       ELSE UNCHANGED << stopWorker, nextQuestionTime, joinable, wpc >>
    /\ UNCHANGED << contestants, nicknamesOfParticipantsThisRound, winnerThisRound,
                    roundComplete, roundScored, currentScoringTime, answer,
                    loggedOut, mutex, wl, cpc, call, envVars, hist >>
    /\ UNCHANGED mainVars

\* StopWorker, lines 232-235: nothing to stop, or go on to take the mutex.
StopWorkerBegin(after, otherwise) ==
    IF joinable
    THEN /\ cpc' = "stop_signal"
         /\ call' = [NoCall EXCEPT !.after = after]
    ELSE /\ cpc' = otherwise
         /\ call' = NoCall

\* Leave, lines 431-437.
Leave(user) ==
    /\ Deliverable
    /\ nCallbacks' = nCallbacks + 1
    /\ IF user = ToLower(BOT_NICKNAME)
       THEN StopWorkerBegin("idle", "idle")
       ELSE UNCHANGED << cpc, call >>
    /\ UNCHANGED << progVars, wpc, wl, envVars, hist >>
    /\ UNCHANGED mainVars

\* LogOut without the test of loggedOut (lines 413-415 left out).
LogOutWithoutTest ==
    /\ Deliverable
    /\ nCallbacks' = nCallbacks + 1
    /\ StopWorkerBegin("logout_signal", "logout_signal")
    /\ hist' = [hist EXCEPT !.logOuts = IF @ < 2 THEN @ + 1 ELSE @]
    /\ UNCHANGED << progVars, wpc, wl, envVars >>
    /\ UNCHANGED mainVars

\* LogOut without the call of StopWorker (line 416 left out).
LogOutWithoutStop ==
    /\ Deliverable
    /\ nCallbacks' = nCallbacks + 1
    /\ IF loggedOut
       THEN UNCHANGED << cpc, call >>
       ELSE /\ cpc' = "logout_signal"
            /\ call' = NoCall
    /\ hist' = [hist EXCEPT !.logOuts = IF @ < 2 THEN @ + 1 ELSE @]
    /\ UNCHANGED << progVars, wpc, wl, envVars >>
    /\ UNCHANGED mainVars

\* LogOut, lines 412-416.
LogOut ==
    /\ Deliverable
    /\ nCallbacks' = nCallbacks + 1
    /\ IF loggedOut
       THEN UNCHANGED << cpc, call >>
       ELSE StopWorkerBegin("logout_signal", "logout_signal")
    /\ hist' = [hist EXCEPT !.logOuts = IF @ < 2 THEN @ + 1 ELSE @]
    /\ UNCHANGED << progVars, wpc, wl, envVars >>
    /\ UNCHANGED mainVars

\* StopWorker, lines 236-240: under the mutex, set the flag and notify.
StopWorkerSignal ==
    /\ cpc = "stop_signal"
    /\ mutex = "free"
    /\ stopWorker' = TRUE
    /\ cpc' = "stop_join"
    /\ UNCHANGED << roundVars, loggedOut, joinable, mutex, wpc, wl, call,
                    envVars, nCallbacks, hist >>
    /\ UNCHANGED mainVars

\* StopWorker with detach() in the place of join() at line 241: it returns
\* without waiting for the worker.
StopWorkerDetach ==
    /\ cpc = "stop_join"
    /\ joinable' = FALSE
    /\ cpc' = call.after
    /\ call' = NoCall
    /\ UNCHANGED << roundVars, stopWorker, loggedOut, mutex, wpc, wl, envVars,
                    nCallbacks, hist >>
    /\ UNCHANGED mainVars

\* StopWorker, line 241: join returns when the worker has left Worker().
StopWorkerJoin ==
    /\ cpc = "stop_join"
    /\ wpc = "done"
    /\ wpc' = "none"
    /\ joinable' = FALSE
    /\ cpc' = call.after
    /\ call' = NoCall
    /\ UNCHANGED << roundVars, stopWorker, loggedOut, mutex, wl, envVars,
                    nCallbacks, hist >>
    /\ UNCHANGED mainVars

\* LogOut, lines 417-420.
LogOutSignal ==
    /\ cpc = "logout_signal"
    /\ mutex = "free"
    /\ logOutNotices' = logOutNotices + 1
    /\ loggedOut' = TRUE
    /\ mainThreadEvents' = mainThreadEvents + 1
    /\ UNCHANGED << mpc, teardown >>
    /\ cpc' = "idle"
    /\ UNCHANGED << roundVars, stopWorker, joinable, mutex, wpc, wl, call,
                    clock, sent, joinRequests, nCallbacks, hist >>

\* ------------------------------------------------------------ Message
\* Message (lines 439-452) calls IfMessageIsAnswerThenHandleIt without
\* taking the mutex.

\* What the history notes when a tell that is a number is handled.
NoteAttempt(h, user, tell) ==
    [h EXCEPT !.attemptSeen = TRUE,
              !.lastTell = IF roundComplete THEN "round_complete"
                          ELSE IF tell # answer
                                  /\ ToIntegerSucceeds(answer)
                                  /\ ToIntegerValue(tell) = ToIntegerValue(answer)
                               THEN "other_text"
                          ELSE "attempt",
              !.correctStart =
                  IF /\ ~roundComplete
                     /\ tell = answer
                     /\ ~InStartNewRound
                     /\ ~InScoring
                  THEN @ \cup {user} ELSE @]

\* Message without the test of roundComplete (lines 386-388 left out).
MessageWithoutCompleteTest(user, tell) ==
    /\ Deliverable
    /\ nCallbacks' = nCallbacks + 1
    /\ IF ToIntegerSucceeds(tell)
       THEN /\ hist' = NoteAttempt(hist, user, tell)
            /\ cpc' = "insert"
            /\ call' = [NoCall EXCEPT !.user = user, !.tell = tell]
       ELSE /\ hist' = [hist EXCEPT !.lastTell = "not_a_number"]
            /\ UNCHANGED << cpc, call >>
    /\ UNCHANGED << progVars, wpc, wl, envVars >>
    /\ UNCHANGED mainVars

\* Message without the test of ToInteger's result (lines 380-385 left out).
MessageWithoutNumberTest(user, tell) ==
    /\ Deliverable
    /\ nCallbacks' = nCallbacks + 1
    /\ hist' = IF ToIntegerSucceeds(tell) THEN NoteAttempt(hist, user, tell)
               ELSE [hist EXCEPT !.lastTell = "not_a_number"]
    /\ IF roundComplete
       THEN UNCHANGED << cpc, call >>
       ELSE /\ cpc' = "insert"
            /\ call' = [NoCall EXCEPT !.user = user, !.tell = tell]
    /\ UNCHANGED << progVars, wpc, wl, envVars >>
    /\ UNCHANGED mainVars

\* Lines 379-388: the tell is parsed and roundComplete is read.
Message(user, tell) ==
    /\ Deliverable
    /\ nCallbacks' = nCallbacks + 1
    /\ IF ToIntegerSucceeds(tell)
       THEN /\ hist' = NoteAttempt(hist, user, tell)
            /\ IF roundComplete
               THEN UNCHANGED << cpc, call >>
               ELSE /\ cpc' = "insert"
                    /\ call' = [NoCall EXCEPT !.user = user, !.tell = tell]
       ELSE /\ hist' = [hist EXCEPT !.lastTell = "not_a_number"]
            /\ UNCHANGED << cpc, call >>
    /\ UNCHANGED << progVars, wpc, wl, envVars >>
    /\ UNCHANGED mainVars

\* Lines 389-390: contestants[userNickname], and the insertion into the set.
MessageInsert ==
    /\ cpc = "insert"
    /\ contestants' = Entry(contestants, call.user)
    /\ nicknamesOfParticipantsThisRound' =
           nicknamesOfParticipantsThisRound \cup {call.user}
    /\ cpc' = IF call.user \in nicknamesOfParticipantsThisRound
              THEN "compare" ELSE "reset"
    /\ hist' = [hist EXCEPT !.attemptSeen = TRUE]
    /\ UNCHANGED << winnerThisRound, roundComplete, roundScored, nextQuestionTime,
                    currentScoringTime, answer, stopWorker, loggedOut, joinable,
                    mutex, wpc, wl, call, envVars, nCallbacks >>
    /\ UNCHANGED mainVars

\* Line 391: the first attempt of the round resets pointDelta.
MessageReset ==
    /\ cpc = "reset"
    /\ contestants' = [contestants EXCEPT ![call.user].pointDelta = 0]
    /\ cpc' = "compare"
    /\ hist' = [hist EXCEPT !.attemptSeen = TRUE]
    /\ UNCHANGED << nicknamesOfParticipantsThisRound, winnerThisRound,
                    roundComplete, roundScored, nextQuestionTime,
                    currentScoringTime, answer, stopWorker, loggedOut, joinable,
                    mutex, wpc, wl, call, envVars, nCallbacks >>
    /\ UNCHANGED mainVars

\* Line 394 comparing the numbers instead of the texts.
MessageCompareNumeric ==
    /\ cpc = "compare"
    /\ LET same == /\ ToIntegerSucceeds(answer)
                   /\ ToIntegerValue(call.tell) = ToIntegerValue(answer)
       IN  /\ cpc' = IF same THEN "winner" ELSE "decrement"
           /\ hist' = [hist EXCEPT !.attemptSeen = TRUE,
                                   !.wrongs[call.user] =
                                       IF same THEN @ ELSE @ + 1]
    /\ call' = [call EXCEPT !.tell = << >>]
    /\ UNCHANGED << progVars, wpc, wl, envVars, nCallbacks >>
    /\ UNCHANGED mainVars

\* Line 394: tell == answer.
MessageCompare ==
    /\ cpc = "compare"
    /\ cpc' = IF call.tell = answer THEN "winner" ELSE "decrement"
    /\ hist' = [hist EXCEPT !.attemptSeen = TRUE,
                            !.wrongs[call.user] =
                                IF call.tell = answer THEN @ ELSE @ + 1]
    /\ call' = [call EXCEPT !.tell = << >>]
    /\ UNCHANGED << progVars, wpc, wl, envVars, nCallbacks >>
    /\ UNCHANGED mainVars

\* Line 396.
MessageWinner ==
    /\ cpc = "winner"
    /\ winnerThisRound' = call.user
    /\ cpc' = "complete"
    /\ hist' = [hist EXCEPT !.attemptSeen = TRUE]
    /\ UNCHANGED << contestants, nicknamesOfParticipantsThisRound, roundComplete,
                    roundScored, nextQuestionTime, currentScoringTime, answer,
                    stopWorker, loggedOut, joinable, mutex, wpc, wl, call,
                    envVars, nCallbacks >>
    /\ UNCHANGED mainVars

\* Line 397.
MessageComplete ==
    /\ cpc = "complete"
    /\ roundComplete' = TRUE
    /\ cpc' = "increment"
    /\ hist' = [hist EXCEPT !.attemptSeen = TRUE]
    /\ UNCHANGED << contestants, nicknamesOfParticipantsThisRound, winnerThisRound,
                    roundScored, nextQuestionTime, currentScoringTime, answer,
                    stopWorker, loggedOut, joinable, mutex, wpc, wl, call,
                    envVars, nCallbacks >>
    /\ UNCHANGED mainVars

\* Line 398 scoring the point at once instead of at the close.
IncrementPoints(c, nickname) ==
    [c EXCEPT ![nickname].pointDelta = @ + 1, ![nickname].points = @ + 1]

\* What lines 398 and 401 do to the sender's entry.
Increment(c, nickname) == [c EXCEPT ![nickname].pointDelta = @ + 1]
Decrement(c, nickname) == [c EXCEPT ![nickname].pointDelta = @ - 1]

\* Line 398.
MessageIncrement ==
    /\ cpc = "increment"
    /\ contestants' = Increment(contestants, call.user)
    /\ cpc' = "idle"
    /\ call' = NoCall
    /\ hist' = [hist EXCEPT !.attemptSeen = TRUE]
    /\ UNCHANGED << nicknamesOfParticipantsThisRound, winnerThisRound,
                    roundComplete, roundScored, nextQuestionTime,
                    currentScoringTime, answer, stopWorker, loggedOut, joinable,
                    mutex, wpc, wl, envVars, nCallbacks >>
    /\ UNCHANGED mainVars

\* Line 401.
MessageDecrement ==
    /\ cpc = "decrement"
    /\ contestants' = Decrement(contestants, call.user)
    /\ cpc' = "idle"
    /\ call' = NoCall
    /\ hist' = [hist EXCEPT !.attemptSeen = TRUE]
    /\ UNCHANGED << nicknamesOfParticipantsThisRound, winnerThisRound,
                    roundComplete, roundScored, nextQuestionTime,
                    currentScoringTime, answer, stopWorker, loggedOut, joinable,
                    mutex, wpc, wl, envVars, nCallbacks >>
    /\ UNCHANGED mainVars

\* ---------------------------------------------------- the worker thread

\* Line 314: Worker() takes the mutex.
WorkerLock ==
    /\ wpc = "lock"
    /\ mutex = "free"
    /\ mutex' = "worker"
    /\ wpc' = "loop"
    /\ UNCHANGED << roundVars, stopWorker, loggedOut, joinable, wl, cpc, call,
                    envVars, nCallbacks, hist >>
    /\ UNCHANGED mainVars

\* Lines 315-320: the loop condition; then wait_for, whose predicate is
\* false, releases the mutex and waits.
WorkerLoop ==
    /\ wpc = "loop"
    /\ mutex' = "free"
    /\ wpc' = IF stopWorker THEN "done" ELSE "waiting"
    /\ UNCHANGED << roundVars, stopWorker, loggedOut, joinable, wl, cpc, call,
                    envVars, nCallbacks, hist >>
    /\ UNCHANGED mainVars

\* Lines 321-330 with the scoring branch also taken as soon as the round is
\* complete.
WorkerWakeScoringWhenComplete ==
    /\ wpc = "waiting"
    /\ mutex = "free"
    /\ mutex' = "worker"
    /\ LET now == clock
       IN  IF now >= nextQuestionTime
           THEN /\ wpc' = "clear_participants"
                /\ wl' = [NoLocals EXCEPT !.lastAnswer = answer]
           ELSE /\ wpc' = IF (now >= currentScoringTime \/ roundComplete)
                             /\ ~roundScored
                          THEN "close" ELSE "loop"
                /\ wl' = NoLocals
    /\ UNCHANGED << roundVars, stopWorker, loggedOut, joinable, cpc, call,
                    envVars, nCallbacks, hist >>
    /\ UNCHANGED mainVars

\* Lines 316-330: wait_for returns (the polling period has passed, or the
\* stop flag is set) with the mutex taken again; the clock is read and the
\* branch chosen.
WorkerWake ==
    /\ wpc = "waiting"
    /\ mutex = "free"
    /\ mutex' = "worker"
    /\ LET now == clock
       IN  IF now >= nextQuestionTime
           THEN /\ wpc' = "clear_participants"
                /\ wl' = [NoLocals EXCEPT !.lastAnswer = answer]
           ELSE /\ wpc' = IF now >= currentScoringTime /\ ~roundScored
                          THEN "close" ELSE "loop"
                /\ wl' = NoLocals
    /\ UNCHANGED << roundVars, stopWorker, loggedOut, joinable, cpc, call,
                    envVars, nCallbacks, hist >>
    /\ UNCHANGED mainVars

\* StartNewRound without line 253: the participants are kept.
KeepParticipants ==
    /\ wpc = "clear_participants"
    /\ wpc' = "clear_winner"
    /\ hist' = [hist EXCEPT !.round = @ + 1,
                            !.wrongs = ZeroPerNick,
                            !.correctStart = {},
                            !.attemptSeen = FALSE,
                            !.applied = ZeroPerNick]
    /\ UNCHANGED << contestants, nicknamesOfParticipantsThisRound,
                    winnerThisRound, roundComplete, roundScored,
                    nextQuestionTime, currentScoringTime, answer, stopWorker,
                    loggedOut, joinable, mutex, wl, cpc, call, envVars,
                    nCallbacks >>
    /\ UNCHANGED mainVars

\* StartNewRound, line 253.
ClearParticipants ==
    /\ wpc = "clear_participants"
    /\ nicknamesOfParticipantsThisRound' = {}
    /\ wpc' = "clear_winner"
    /\ hist' = [hist EXCEPT !.round = @ + 1,
                            !.wrongs = ZeroPerNick,
                            !.correctStart = {},
                            !.attemptSeen = FALSE,
                            !.applied = ZeroPerNick]
    /\ UNCHANGED << contestants, winnerThisRound, roundComplete, roundScored,
                    nextQuestionTime, currentScoringTime, answer, stopWorker,
                    loggedOut, joinable, mutex, wl, cpc, call, envVars,
                    nCallbacks >>
    /\ UNCHANGED mainVars

\* StartNewRound, line 254.
ClearWinner ==
    /\ wpc = "clear_winner"
    /\ winnerThisRound' = ""
    /\ wpc' = "draw"
    /\ UNCHANGED << contestants, nicknamesOfParticipantsThisRound, roundComplete,
                    roundScored, nextQuestionTime, currentScoringTime, answer,
                    stopWorker, loggedOut, joinable, mutex, wl, cpc, call,
                    envVars, nCallbacks, hist >>
    /\ UNCHANGED mainVars

\* sprintf("What is %d * %d + %d?", ...), lines 261-266.
Question(a, b, c) ==
    "What is " \o ToString(a) \o " * " \o ToString(b) \o " + "
        \o ToString(c) \o "?"

\* StartNewRound with one pass only (the condition of line 271 left out).
DrawOnce(a, b, c) ==
    /\ wpc = "draw"
    /\ answer' = FormatDecimal(a * b + c)
    /\ wl' = [wl EXCEPT !.question = Question(a, b, c)]
    /\ wpc' = "open"
    /\ UNCHANGED << contestants, nicknamesOfParticipantsThisRound, winnerThisRound,
                    roundComplete, roundScored, nextQuestionTime,
                    currentScoringTime, stopWorker, loggedOut, joinable, mutex,
                    cpc, call, envVars, nCallbacks, hist >>
    /\ UNCHANGED mainVars

\* StartNewRound, lines 256-271: one pass of the do-while loop.
Draw(a, b, c) ==
    /\ wpc = "draw"
    /\ answer' = FormatDecimal(a * b + c)
    /\ wl' = [wl EXCEPT !.question = Question(a, b, c)]
    /\ wpc' = IF answer' = wl.lastAnswer THEN "draw" ELSE "open"
    /\ UNCHANGED << contestants, nicknamesOfParticipantsThisRound, winnerThisRound,
                    roundComplete, roundScored, nextQuestionTime,
                    currentScoringTime, stopWorker, loggedOut, joinable, mutex,
                    cpc, call, envVars, nCallbacks, hist >>
    /\ UNCHANGED mainVars

\* UpdateRoundTimes counting from the clock instead of nextQuestionTime.
UpdateRoundTimesFromNow(cooldown) ==
    /\ currentScoringTime' = clock + roundTime
    /\ nextQuestionTime' = clock + cooldown

\* UpdateRoundTimes, lines 208-214, with the cooldown drawn.
UpdateRoundTimes(cooldown) ==
    /\ currentScoringTime' = nextQuestionTime + roundTime
    /\ nextQuestionTime' = nextQuestionTime + cooldown

\* StartNewRound, lines 272-275, and the unlock of line 324.
OpenRound(cooldown) ==
    /\ wpc = "open"
    /\ roundScored' = FALSE
    /\ roundComplete' = FALSE
    /\ UpdateRoundTimes(cooldown)
    /\ mutex' = "free"
    /\ wpc' = "send_question"
    /\ hist' = [hist EXCEPT !.openedAnswer = answer,
                            !.openedLate = (clock > nextQuestionTime)]
    /\ UNCHANGED << contestants, nicknamesOfParticipantsThisRound, winnerThisRound,
                    answer, stopWorker, loggedOut, joinable, wl, cpc, call,
                    envVars, nCallbacks >>
    /\ UNCHANGED mainVars

\* Line 325: the question is sent with the mutex released.
SendQuestion ==
    /\ wpc = "send_question"
    /\ sent' = [kind |-> "question", text |-> wl.question]
    /\ wpc' = "relock"
    /\ wl' = NoLocals
    /\ hist' = [hist EXCEPT !.openedLate = FALSE]
    /\ UNCHANGED << progVars, cpc, call, clock, joinRequests, logOutNotices,
                    nCallbacks >>
    /\ UNCHANGED mainVars

\* Line 326.
Relock ==
    /\ wpc = "relock"
    /\ mutex = "free"
    /\ mutex' = "worker"
    /\ wpc' = "loop"
    /\ UNCHANGED << roundVars, stopWorker, loggedOut, joinable, wl, cpc, call,
                    envVars, nCallbacks, hist >>
    /\ UNCHANGED mainVars

\* Lines 331-332.
CloseRound ==
    /\ wpc = "close"
    /\ roundComplete' = TRUE
    /\ roundScored' = TRUE
    /\ wpc' = "apply"
    /\ hist' = [hist EXCEPT
                   !.atClose =
                       [points |-> [n \in Nicknames |-> Points(contestants, n)],
                        deltas |-> [n \in Nicknames |-> PointDelta(contestants, n)],
                        participants |-> nicknamesOfParticipantsThisRound],
                   !.listed = << >>]
    /\ UNCHANGED << contestants, nicknamesOfParticipantsThisRound, winnerThisRound,
                    nextQuestionTime, currentScoringTime, answer, stopWorker,
                    loggedOut, joinable, mutex, wl, cpc, call, envVars,
                    nCallbacks >>
    /\ UNCHANGED mainVars

\* Line 293: points += pointDelta.
AddDelta(c, nickname) ==
    [Entry(c, nickname) EXCEPT
        ![nickname].points = @ + Entry(c, nickname)[nickname].pointDelta]

\* ApplyScoresAndGetLosers, lines 292-293: the loop moves to the next
\* participant and applies its delta; line 306 when there is none.
ApplyScore ==
    /\ wpc = "apply"
    /\ LET nickname == NextInSet(nicknamesOfParticipantsThisRound, wl.cursor)
       IN  IF nickname = ""
           THEN /\ wpc' = "announce"
                /\ UNCHANGED << contestants, wl, hist >>
           ELSE /\ contestants' = AddDelta(contestants, nickname)
                /\ wl' = [wl EXCEPT !.cursor = nickname]
                /\ hist' = [hist EXCEPT !.applied[nickname] = @ + 1]
                /\ wpc' = "list"
    /\ UNCHANGED << nicknamesOfParticipantsThisRound, winnerThisRound,
                    roundComplete, roundScored, nextQuestionTime,
                    currentScoringTime, answer, stopWorker, loggedOut, joinable,
                    mutex, cpc, call, envVars, nCallbacks >>
    /\ UNCHANGED mainVars

\* Lines 295-303: what one loser adds to the buffer.
LoserText(first, nickname, delta, total) ==
    (IF first THEN "" ELSE ", ")
        \o nickname \o " (" \o ToString(delta) \o " -> " \o ToString(total) \o ")"

\* ApplyScoresAndGetLosers, lines 294-304.
ListLoser ==
    /\ wpc = "list"
    /\ LET nickname == wl.cursor
           delta == contestants[nickname].pointDelta
           total == contestants[nickname].points
       IN  IF nickname # winnerThisRound
           THEN /\ wl' = [wl EXCEPT
                            !.firstLoser = FALSE,
                            !.buffer = @ \o LoserText(wl.firstLoser, nickname,
                                                      delta, total)]
                /\ hist' = [hist EXCEPT !.listed =
                               Append(@, [nickname |-> nickname, delta |-> delta,
                                          total |-> total])]
           ELSE UNCHANGED << wl, hist >>
    /\ wpc' = "apply"
    /\ UNCHANGED << progVars, cpc, call, envVars, nCallbacks >>
    /\ UNCHANGED mainVars

\* Lines 334-350 with "points" for every total (line 344 left out).
ResultsTextAlwaysPlural(winner, winnerPoints, losersList) ==
    (IF winner = ""
     THEN "No winners this round"
              \o (IF losersList # ""
                  THEN ", only losers BibleThump " \o losersList ELSE "")
     ELSE "Congratulations, " \o winner \o "! (now at "
              \o ToString(winnerPoints) \o " points)"
              \o (IF losersList # ""
                  THEN " FeelsBadMan " \o losersList ELSE ""))
        \o "."

\* Lines 334-350: the results message.
ResultsText(winner, winnerPoints, losersList) ==
    (IF winner = ""
     THEN "No winners this round"
              \o (IF losersList # ""
                  THEN ", only losers BibleThump " \o losersList ELSE "")
     ELSE "Congratulations, " \o winner \o "! (now at "
              \o ToString(winnerPoints) \o " point"
              \o (IF winnerPoints = 1 THEN "" ELSE "s") \o ")"
              \o (IF losersList # ""
                  THEN " FeelsBadMan " \o losersList ELSE ""))
        \o "."

\* Lines 333-354: the results are composed and sent, the mutex held.
Announce ==
    /\ wpc = "announce"
    /\ LET text == ResultsText(winnerThisRound,
                               Points(contestants, winnerThisRound), wl.buffer)
       IN  /\ sent' = [kind |-> "results", text |-> text]
           /\ hist' = [hist EXCEPT !.result =
                          [round |-> hist.round, winner |-> winnerThisRound,
                           text |-> text, losers |-> hist.listed]]
    /\ contestants' = IF winnerThisRound = "" THEN contestants
                      ELSE Entry(contestants, winnerThisRound)
    /\ wl' = NoLocals
    /\ wpc' = "loop"
    /\ UNCHANGED << nicknamesOfParticipantsThisRound, winnerThisRound,
                    roundComplete, roundScored, nextQuestionTime,
                    currentScoringTime, answer, stopWorker, loggedOut, joinable,
                    mutex, cpc, call, clock, joinRequests, logOutNotices,
                    nCallbacks >>
    /\ UNCHANGED mainVars

\* ------------------------------------------------------ the main thread
\* The thread that owns the MathBot2001 object calls AwaitLogOut and, in the
\* end, destroys the object.

\* AwaitLogOut, lines 527-534: the mutex is taken and the predicate of
\* wait_for tested; the call returns true at once when loggedOut is set and
\* otherwise waits, the mutex released.
AwaitLogOutBegin ==
    /\ teardown = "none"
    /\ mpc \in {"idle", "false", "true"}
    /\ mutex = "free"
    /\ mpc' = IF loggedOut THEN "true" ELSE "waiting"
    /\ UNCHANGED << progVars, wpc, wl, cpc, call, envVars, nCallbacks,
                    mainThreadEvents, teardown, hist >>

\* AwaitLogOut, lines 529-533: the wait ends (notify_one, or the 250 ms
\* have passed), the mutex is taken again and the predicate's value returned.
AwaitLogOutEnd ==
    /\ mpc = "waiting"
    /\ mutex = "free"
    /\ mpc' = IF loggedOut THEN "true" ELSE "false"
    /\ UNCHANGED << progVars, wpc, wl, cpc, call, envVars, nCallbacks,
                    mainThreadEvents, teardown, hist >>

\* ~MathBot2001, line 456: defaulted, so Impl's members are destroyed as they
\* are; destroying workerThread (line 118) while it is joinable calls
\* std::terminate.  Nothing of the object acts after that; its fields are
\* kept as they were, to be read by the properties only.
Destroy ==
    /\ teardown = "none"
    /\ mpc # "waiting"
    /\ teardown' = IF joinable THEN "terminate" ELSE "clean"
    /\ mpc' = "gone"
    /\ cpc' = "gone"
    /\ wpc' = "none"
    /\ call' = NoCall
    /\ wl' = NoLocals
    /\ UNCHANGED << progVars, envVars, nCallbacks, mainThreadEvents, hist >>

\* ------------------------------------------------------ specification

Next ==
    \/ Tick
    \/ LogIn
    \/ LogOut
    \/ \E user \in MembershipUsers : Join(user)
    \/ \E user \in MembershipUsers : Leave(user)
    \/ StopWorkerSignal
    \/ StopWorkerJoin
    \/ LogOutSignal
    \/ \E user \in Nicknames, tell \in Tells : Message(user, tell)
    \/ MessageInsert
    \/ MessageReset
    \/ MessageCompare
    \/ MessageWinner
    \/ MessageComplete
    \/ MessageIncrement
    \/ MessageDecrement
    \/ WorkerLock
    \/ WorkerLoop
    \/ WorkerWake
    \/ ClearParticipants
    \/ ClearWinner
    \/ \E a \in FactorDraws, b \in FactorDraws, c \in OffsetDraws : Draw(a, b, c)
    \/ \E cooldown \in CooldownDraws : OpenRound(cooldown)
    \/ SendQuestion
    \/ Relock
    \/ CloseRound
    \/ ApplyScore
    \/ ListLoser
    \/ Announce
    \/ AwaitLogOutBegin
    \/ AwaitLogOutEnd
    \/ Destroy

Spec == Init /\ [][Next]_vars

\* The scheduling of the two threads: a thread that can take a step takes
\* it, and a thread that asks for the mutex again and again gets it.  Time
\* need not pass: neither Tick nor the timeout of a wait is required to
\* happen; wait_for is only required to return once stopWorker is set and
\* notified (lines 238-239, 319).  Every value of the random draws keeps
\* coming.
Fairness ==
    /\ SF_vars(WorkerLock)
    /\ WF_vars(WorkerLoop)
    /\ SF_vars(stopWorker /\ WorkerWake)
    /\ WF_vars(ClearParticipants)
    /\ WF_vars(ClearWinner)
    /\ \A a \in FactorDraws, b \in FactorDraws, c \in OffsetDraws :
           WF_vars(Draw(a, b, c))
    /\ WF_vars(\E cooldown \in CooldownDraws : OpenRound(cooldown))
    /\ WF_vars(SendQuestion)
    /\ SF_vars(Relock)
    /\ WF_vars(CloseRound)
    /\ WF_vars(ApplyScore)
    /\ WF_vars(Announce)
    /\ SF_vars(StopWorkerSignal)
    /\ WF_vars(StopWorkerJoin)
    /\ SF_vars(LogOutSignal)

\* The threads without the chat: the callbacks of the session (LogIn, LogOut,
\* Join, Leave), the worker and the main thread.  Message takes no mutex and
\* writes neither stopWorker nor anything the worker's control flow reads
\* but the participants, which without Message stay empty (so ListLoser,
\* which needs a participant, is not part of it).
SchedulerNext ==
    \/ Tick
    \/ LogIn
    \/ LogOut
    \/ \E user \in MembershipUsers : Join(user)
    \/ \E user \in MembershipUsers : Leave(user)
    \/ StopWorkerSignal
    \/ StopWorkerJoin
    \/ LogOutSignal
    \/ WorkerLock
    \/ WorkerLoop
    \/ WorkerWake
    \/ ClearParticipants
    \/ ClearWinner
    \/ \E a \in FactorDraws, b \in FactorDraws, c \in OffsetDraws : Draw(a, b, c)
    \/ \E cooldown \in CooldownDraws : OpenRound(cooldown)
    \/ SendQuestion
    \/ Relock
    \/ CloseRound
    \/ ApplyScore
    \/ Announce
    \/ AwaitLogOutBegin
    \/ AwaitLogOutEnd
    \/ Destroy

FairSpec == Init /\ [][SchedulerNext]_vars /\ Fairness

\* The worker's wait_for returns after the polling period at the latest, and
\* the clock goes on.
PollingFairness ==
    /\ Fairness
    /\ SF_vars(WorkerWake)
    /\ SF_vars(TimelyTick)

\* The worker with the clock of the timely worker, and the callbacks that
\* start and stop it (Join, Leave, LogOut).
PlayNext ==
    \/ TimelyTick
    \/ LogOut
    \/ \E user \in MembershipUsers : Join(user)
    \/ \E user \in MembershipUsers : Leave(user)
    \/ StopWorkerSignal
    \/ StopWorkerJoin
    \/ LogOutSignal
    \/ WorkerLock
    \/ WorkerLoop
    \/ WorkerWake
    \/ ClearParticipants
    \/ ClearWinner
    \/ \E a \in FactorDraws, b \in FactorDraws, c \in OffsetDraws : Draw(a, b, c)
    \/ \E cooldown \in CooldownDraws : OpenRound(cooldown)
    \/ SendQuestion
    \/ Relock
    \/ CloseRound
    \/ ApplyScore
    \/ Announce

PlaySpec == Init /\ [][PlayNext]_vars /\ PollingFairness

\* ========================================================== properties

\* The transport's thread is part-way through the body of
\* IfMessageIsAnswerThenHandleIt (past the test of roundComplete).
InMessageBody ==
    cpc \in {"insert", "reset", "compare", "winner", "complete",
             "increment", "decrement"}

\* A results message has been sent for the round that is current.
ResultsOut == hist.round > 0 /\ hist.result.round = hist.round

\* What the close of the current round added to a nickname's points.
Gain(n) == Points(contestants, n) - hist.atClose.points[n]

\* C1: no reachable state has a Message handler part-way through its body
\* while the worker is inside StartNewRound or inside the scoring branch
\* (the handler would have to hold the mutex the worker holds there).
C1_HandlerExcludesWorker ==
    InMessageBody => ~(InStartNewRound \/ InScoring)

\* The worker opens a round, scores one or sends a message.
WorkerActs ==
    \/ ClearParticipants
    \/ \E cooldown \in CooldownDraws : OpenRound(cooldown)
    \/ SendQuestion
    \/ CloseRound
    \/ ApplyScore
    \/ Announce

\* C2: when a tell equal to the round's answer started being handled while
\* the round was open, the round's results name its sender as the winner
\* and the sender's +1 is part of the delta applied at the close.
C2_EarlyCorrectAnswerWins ==
    ResultsOut =>
        \A u \in hist.correctStart :
            /\ hist.result.winner = u
            /\ hist.applied[u] = 1
            /\ Gain(u) = 1 - hist.wrongs[u]

\* C3: once winnerThisRound is non-empty it does not change until
\* StartNewRound clears it.
C3_WinnerSetOnce ==
    [][winnerThisRound # "" /\ winnerThisRound' # winnerThisRound
           => winnerThisRound' = "" /\ wpc = "clear_winner"]_vars

\* C4: points += pointDelta is applied to every participant of a round
\* exactly once, in that round's close: never twice, and no round is left
\* (by the next StartNewRound) with a participant that was not scored.
C4_ScoredExactlyOnce ==
    [][/\ \A n \in Nicknames : hist'.applied[n] <= 1
       /\ hist'.round # hist.round =>
              \A n \in nicknamesOfParticipantsThisRound : hist.applied[n] = 1]_vars

\* C5: a contestant's points change only in the scoring pass of the worker
\* (line 293); no callback and no other step of the worker changes them.
C5_PointsChangeOnlyInScoring ==
    [][(\E n \in Nicknames : Points(contestants', n) # Points(contestants, n))
           => wpc = "apply" /\ wpc' = "list"]_vars

\* C5 witness: the scoring pass has changed somebody's points.
C5_Witness ==
    /\ ResultsOut
    /\ \E n \in Nicknames : Gain(n) # 0

\* The round state that an ignored tell must leave as it is.
answerState == << contestants, nicknamesOfParticipantsThisRound, winnerThisRound,
                  roundComplete, roundScored >>

\* C6: a tell handled while roundComplete is true changes nothing: the
\* handler returns at once and the contestants, the participants, the
\* winner, roundComplete and roundScored are as before.
C6_IgnoredWhenRoundComplete ==
    [][(roundComplete /\ \E u \in Nicknames, t \in Tells : Message(u, t))
           => cpc' = "idle" /\ UNCHANGED answerState]_vars

\* C6 witness: after a win, a further numeric tell was dropped.
C6_Witness ==
    /\ hist.lastTell = "round_complete"
    /\ winnerThisRound # ""
    /\ cpc = "idle"

\* C7: a tell that is no base-10 integer changes nothing, whatever the
\* state of the round.
C7_NotANumberIgnored ==
    [][(\E u \in Nicknames, t \in Tells : ~ToIntegerSucceeds(t) /\ Message(u, t))
           => cpc' = "idle" /\ UNCHANGED answerState]_vars

\* C7 witness: a tell that is no number was dropped in an open round.
C7_Witness ==
    /\ hist.lastTell = "not_a_number"
    /\ ~roundComplete
    /\ cpc = "idle"

\* "nickname (delta -> total)".
LoserEntry(r) ==
    r.nickname \o " (" \o ToString(r.delta) \o " -> " \o ToString(r.total) \o ")"

\* The entries, comma-separated.
RECURSIVE LoserList(_)
LoserList(rs) ==
    IF Len(rs) = 0 THEN ""
    ELSE IF Len(rs) = 1 THEN LoserEntry(rs[1])
    ELSE LoserEntry(rs[1]) \o ", " \o LoserList(Tail(rs))

\* The participants other than the winner, in nickname order, each with
\* minus its wrong guesses as delta and its points as total.
RECURSIVE ExpectedLosers(_, _)
ExpectedLosers(i, winner) ==
    IF i > Len(SortedNicknames) THEN << >>
    ELSE LET n == SortedNicknames[i]
         IN  (IF n \in nicknamesOfParticipantsThisRound /\ n # winner
              THEN << [nickname |-> n, delta |-> 0 - hist.wrongs[n],
                       total |-> Points(contestants, n)] >>
              ELSE << >>)
             \o ExpectedLosers(i + 1, winner)

NowAt(n) == "(now at " \o ToString(n) \o (IF n = 1 THEN " point)" ELSE " points)")

\* C8: at the close every participant gains (1 if winner, else 0) minus
\* its wrong guesses of the round, and the results report that delta and
\* the new total for each loser and the new total for the winner.
C8_CloseAppliesRoundDeltas ==
    ResultsOut =>
        /\ \A p \in nicknamesOfParticipantsThisRound :
               Gain(p) = (IF p = winnerThisRound THEN 1 ELSE 0) - hist.wrongs[p]
        /\ hist.result.losers = ExpectedLosers(1, winnerThisRound)
        /\ hist.result.winner = winnerThisRound

\* C9: when no answer attempt was handled between StartNewRound and the
\* close, the results are exactly "No winners this round." and the close
\* changed no contestant's points or pointDelta.
C9_NoAttemptNoWinner ==
    (ResultsOut /\ ~hist.attemptSeen) =>
        /\ sent = [kind |-> "results", text |-> "No winners this round."]
        /\ \A n \in Nicknames :
              /\ Points(contestants, n) = hist.atClose.points[n]
              /\ PointDelta(contestants, n) = hist.atClose.deltas[n]

\* C9 witness: a round was closed without any attempt.
C9_Witness ==
    /\ ResultsOut
    /\ ~hist.attemptSeen
    /\ sent.kind = "results"

\* The four results texts of lines 334-350.
ResultsWithEmotes(winner, winnerPoints, list) ==
    CASE winner = "" /\ list = "" -> "No winners this round."
      [] winner = "" /\ list # "" ->
             "No winners this round, only losers BibleThump " \o list \o "."
      [] winner # "" /\ list = "" ->
             "Congratulations, " \o winner \o "! " \o NowAt(winnerPoints) \o "."
      [] OTHER ->
             "Congratulations, " \o winner \o "! " \o NowAt(winnerPoints)
                 \o " FeelsBadMan " \o list \o "."

\* The four results texts as the specification words them.
ResultsAsSpecified(winner, winnerPoints, list) ==
    CASE winner = "" /\ list = "" -> "No winners this round."
      [] winner = "" /\ list # "" ->
             "No winners this round, only losers " \o list \o "."
      [] winner # "" /\ list = "" ->
             "Congratulations, " \o winner \o "! " \o NowAt(winnerPoints) \o "."
      [] OTHER ->
             "Congratulations, " \o winner \o "! " \o NowAt(winnerPoints)
                 \o " " \o list \o "."

C11_StopWorkerStopsWorker ==
    /\ (cpc = "stop_signal") ~> ((~joinable /\ wpc = "none") \/ teardown # "none")
    /\ [][(cpc = "stop_join" /\ cpc' # "stop_join" /\ teardown' = "none")
              => wpc = "done" /\ wpc' = "none"]_vars
    /\ [][~joinable => ~WorkerActs]_vars

\* C11 witness: StopWorker has returned from stopping a worker that had
\* opened a round.
C11_Witness ==
    /\ ~joinable
    /\ stopWorker
    /\ wpc = "none"
    /\ cpc = "idle"
    /\ hist.round > 0
    /\ teardown = "none"

\* C12: however many LogOut callbacks are delivered, once two or more have
\* returned exactly one "Logged out." has been emitted and the main thread
\* has been notified exactly once; a LogOut delivered when loggedOut is set
\* changes nothing of the object and stops no thread.
C12_LogOutIdempotent ==
    [][/\ (hist'.logOuts >= 2 /\ cpc' = "idle")
            => (logOutNotices' = 1 /\ mainThreadEvents' = 1)
       /\ logOutNotices' <= 1 /\ mainThreadEvents' <= 1
       /\ (loggedOut /\ LogOut)
            => UNCHANGED << progVars, wpc, wl, cpc, call, envVars, mainVars >>]_vars

\* C12 witness: a second LogOut has returned.
C12_Witness ==
    /\ hist.logOuts >= 2
    /\ cpc = "idle"
    /\ logOutNotices = 1

\* A LogOut callback returns: at line 415, or after line 420.
LogOutReturns == LogOutSignal \/ (loggedOut /\ LogOut)

\* An AwaitLogOut call returns.
AwaitLogOutReturns == (AwaitLogOutBegin \/ AwaitLogOutEnd) /\ mpc' # "waiting"

\* C13 as stated: when a LogOut callback returns the worker thread is not running and
\* loggedOut is set; loggedOut stays set; an AwaitLogOut that returns when
\* loggedOut is set returns true, and one that returns before any LogOut
\* callback returns false.
C13_AfterLogOut ==
    [][/\ LogOutReturns => (~joinable' /\ wpc' = "none" /\ loggedOut')
       /\ loggedOut => loggedOut'
       /\ AwaitLogOutReturns =>
              /\ loggedOut => mpc' = "true"
              /\ hist.logOuts = 0 => mpc' = "false"]_vars

\* C13 as amended: when the LogOut callback that sets loggedOut returns, the
\* worker thread is not running and loggedOut is set; loggedOut stays set; a
\* later LogOut callback returns at once and leaves the worker as it is
\* (running, when a Join of the bot's nickname started it again); an
\* AwaitLogOut that returns when loggedOut is set returns true, and one that
\* returns before any LogOut callback returns false.
C13_AfterFirstLogOut ==
    [][/\ LogOutSignal => (~joinable' /\ wpc' = "none" /\ loggedOut')
       /\ (loggedOut /\ LogOut) => UNCHANGED << joinable, wpc, loggedOut >>
       /\ loggedOut => loggedOut'
       /\ AwaitLogOutReturns =>
              /\ loggedOut => mpc' = "true"
              /\ hist.logOuts = 0 => mpc' = "false"]_vars

\* C13 witness: LogOut has stopped a worker that had opened a round, and an
\* AwaitLogOut has returned true after it.
C13_Witness ==
    /\ loggedOut
    /\ ~joinable
    /\ hist.round > 0
    /\ cpc = "idle"
    /\ mpc = "true"

\* C14 as stated: the LogIn callback starts the worker thread and issues
\* exactly one Join(channel) request.
C14_LogInStartsWorker ==
    [][LogIn => (joinable' /\ wpc' # "none" /\ joinRequests' = joinRequests + 1)]_vars

\* C14 as amended: the LogIn callback issues exactly one Join(channel)
\* request and starts no thread (the worker and every field of the object
\* are as before); the worker is started by the Join callback that names
\* the bot's nickname in lower case.
C14_LogInRequestsJoin ==
    [][/\ LogIn => /\ joinRequests' = joinRequests + 1
                   /\ UNCHANGED << progVars, wpc, wl, cpc >>
       /\ Join("mathbot2001") => (joinable' /\ wpc' # "none")]_vars

\* C14 witness: LogIn has been delivered and no worker runs.
C14_Witness ==
    /\ joinRequests = 1
    /\ nCallbacks = 1
    /\ ~joinable
    /\ wpc = "none"
    /\ teardown = "none"

\* C15: a Join callback starts the worker (a no-op when it runs) exactly
\* when the user is the bot's nickname as Twitch writes it, in lower case;
\* a Leave callback stops the worker exactly when the user is that
\* nickname, and has the worker stopped and joined when it returns; Join
\* and Leave of any other user change nothing of the object or the worker.
C15_OwnMembershipOnly ==
    [][\A user \in MembershipUsers :
         /\ Join(user) =>
               IF user = "mathbot2001"
               THEN /\ joinable' /\ wpc' # "none"
                    /\ joinable => UNCHANGED << progVars, wpc, wl >>
               ELSE UNCHANGED << progVars, wpc, wl, cpc, call, envVars >>
         /\ Leave(user) =>
               IF user = "mathbot2001"
               THEN IF joinable THEN cpc' = "stop_signal"
                    ELSE UNCHANGED << progVars, wpc, wl, cpc >>
               ELSE UNCHANGED << progVars, wpc, wl, cpc, call, envVars >>
         /\ (StopWorkerJoin /\ cpc' = "idle") => (~joinable' /\ wpc' = "none")]_vars

\* C15 witness: the worker started by the bot's Join has been stopped by
\* the bot's Leave.
C15_Witness ==
    /\ nCallbacks = 2
    /\ ~joinable
    /\ stopWorker
    /\ ~loggedOut
    /\ hist.logOuts = 0
    /\ cpc = "idle"

\* C16: the answer of a round that is opened differs from the answer of the
\* round opened before it, also when the worker was stopped and started in
\* between; and the loop that draws again ends, every value of the draws
\* coming again and again.
C16_AnswerDiffers ==
    /\ [][(\E cooldown \in CooldownDraws : OpenRound(cooldown))
              => (answer # hist.openedAnswer /\ answer' = answer)]_vars
    /\ (wpc = "draw") ~> (wpc = "open" \/ teardown # "none")

\* C16 witness: a second round has just been opened.
C16_Witness ==
    /\ hist.round >= 2
    /\ wpc = "send_question"
    /\ hist.openedAnswer = answer

\* C17: the object is never destroyed while the worker thread is running
\* (joinable): teardown finds the worker stopped and joined.
C17_TeardownAfterJoin ==
    teardown # "none" => (teardown = "clean" /\ ~joinable)

\* C18: the worker calls SendMessage, for the question and for the results,
\* only with the mutex released, and the question sent is the one composed
\* before the release.
C18_SendsUnlocked ==
    [][/\ (SendQuestion \/ Announce) => mutex # "worker"
       /\ SendQuestion => sent'.text = wl.question]_vars

\* C19: the worker starts a new round only when the round before it has
\* been scored, and scores a round only once, so that between two Opens
\* there is exactly one scoring pass.
C19_OpenOnlyWhenScored ==
    [][/\ (WorkerWake /\ wpc' = "clear_participants") => roundScored
       /\ CloseRound => ~roundScored]_vars

\* C20: opening a round sets currentScoringTime to the nextQuestionTime it
\* found plus roundTime, and adds to nextQuestionTime a cooldown between
\* minQuestionCooldown and maxQuestionCooldown, whatever the clock reads; the
\* round opened has currentScoringTime < nextQuestionTime.
C20_RoundTimes ==
    [][(\E cooldown \in CooldownDraws : OpenRound(cooldown)) =>
          /\ currentScoringTime' = nextQuestionTime + roundTime
          /\ nextQuestionTime' - nextQuestionTime >= minQuestionCooldown
          /\ nextQuestionTime' - nextQuestionTime <= maxQuestionCooldown
          /\ currentScoringTime' < nextQuestionTime']_vars

\* C20 witness: a round was opened when the clock had passed its
\* nextQuestionTime.
C20_Witness ==
    /\ hist.openedLate
    /\ wpc = "send_question"
    /\ currentScoringTime < nextQuestionTime

\* The worker thread has run and has left Worker().
WorkerExited ==
    /\ wpc \in {"done", "none"}
    /\ hist.round > 0
    /\ teardown = "none"

\* C21: whenever the worker thread has exited, the current round is either
\* unscored with no participant's pointDelta added to its points, or scored
\* with every participant's pointDelta added exactly once; and StopWorker
\* never sets the stop flag while the worker is inside a scoring pass.
C21_NoPartialScoring ==
    /\ [](WorkerExited =>
            \/ /\ ~roundScored
               /\ \A n \in nicknamesOfParticipantsThisRound : hist.applied[n] = 0
            \/ /\ roundScored
               /\ \A n \in nicknamesOfParticipantsThisRound : hist.applied[n] = 1)
    /\ [][StopWorkerSignal => ~InScoring]_vars

\* C22: a wake of the worker that finds the stop flag set starts no
\* transition: the worker opens no round and scores none in that wake, and
\* from the setting of the flag to the worker's exit it sends nothing.
C22_StopWakeDoesNothing ==
    [][/\ (stopWorker /\ WorkerWake) => wpc' = "loop"
       /\ (stopWorker /\ cpc = "stop_join" /\ wpc \in {"waiting", "loop"})
              => sent' = sent]_vars

\* The net of the round's handled attempts of nickname n.
RoundNet(n) == (IF n = winnerThisRound THEN 1 ELSE 0) - hist.wrongs[n]

\* C23: the handler resets the sender's pointDelta exactly at the sender's
\* first attempt of the round and at no later attempt; the delta that the
\* scoring pass adds for a participant is the net of this round's attempts
\* only; and while a nickname is no participant of the round its pointDelta
\* and its points are left alone.
C23_ResetAtFirstAttempt ==
    [][/\ MessageInsert =>
              ((cpc' = "reset") <=> (hist.wrongs[call.user] = 0))
       /\ MessageReset =>
              /\ hist.wrongs[call.user] = 0
              /\ call.user \in nicknamesOfParticipantsThisRound
       /\ \A n \in Nicknames :
              /\ (ApplyScore /\ hist'.applied[n] # hist.applied[n])
                     => PointDelta(contestants, n) = RoundNet(n)
              /\ (n \notin nicknamesOfParticipantsThisRound')
                     => /\ PointDelta(contestants', n) = PointDelta(contestants, n)
                        /\ Points(contestants', n) = Points(contestants, n)]_vars

\* The tell is a number equal to the answer's number, written differently.
SameNumberOtherText(tell) ==
    /\ ToIntegerSucceeds(tell)
    /\ ToIntegerSucceeds(answer)
    /\ ToIntegerValue(tell) = ToIntegerValue(answer)
    /\ tell # answer

\* C24: answers are matched as texts. A tell that is the answer's number
\* in another spelling is taken as an attempt in an open round, its sender
\* is inserted into the participants, the comparison of line 394 sends it
\* down the wrong-guess branch, and that branch takes one from the sender's
\* pointDelta and writes neither winnerThisRound nor roundComplete.
C24_ExactStringMatch ==
    [][/\ \A u \in Nicknames, t \in Tells :
              (Message(u, t) /\ ~roundComplete /\ SameNumberOtherText(t))
                  => cpc' = "insert" /\ call'.tell = t
       /\ MessageInsert => call.user \in nicknamesOfParticipantsThisRound'
       /\ (MessageCompare /\ SameNumberOtherText(call.tell))
              => cpc' = "decrement"
       /\ MessageDecrement =>
              /\ PointDelta(contestants', call.user)
                     = PointDelta(contestants, call.user) - 1
              /\ winnerThisRound' = winnerThisRound
              /\ roundComplete' = roundComplete]_vars

\* "06" was sent for the answer "6" by the round's only participant, and
\* the round was scored with no winner and that participant one point down.
C24_Witness ==
    /\ ResultsOut
    /\ hist.openedAnswer = <<"6">>
    /\ winnerThisRound = ""
    /\ nicknamesOfParticipantsThisRound = {"alice"}
    /\ hist.lastTell = "other_text"
    /\ hist.wrongs["alice"] = 1
    /\ PointDelta(contestants, "alice") = -1
    /\ Gain("alice") = -1

\* C25: the correct answer sets roundComplete and leaves roundScored
\* alone; while the clock is before currentScoringTime a complete round is
\* not scored, no points change and no results are sent; roundComplete
\* stays set until StartNewRound opens another round; and the scoring pass
\* is entered only by a worker wake with now >= currentScoringTime.
C25_CorrectAnswerDoesNotScore ==
    /\ []((clock < currentScoringTime) => ~InScoring)
    /\ []((roundComplete /\ winnerThisRound # "" /\ clock < currentScoringTime)
             => ~roundScored)
    /\ [][/\ MessageComplete =>
               /\ roundComplete'
               /\ roundScored' = roundScored
               /\ sent' = sent
               /\ \A n \in Nicknames :
                      Points(contestants', n) = Points(contestants, n)
          /\ (clock < currentScoringTime) =>
               /\ roundScored' => roundScored
               /\ sent'.kind = "results" => sent' = sent
               /\ \A n \in Nicknames :
                      Points(contestants', n) = Points(contestants, n)
          /\ (roundComplete /\ ~roundComplete') =>
               \E cooldown \in CooldownDraws : OpenRound(cooldown)
          /\ (~roundScored /\ roundScored') =>
               /\ CloseRound
               /\ clock >= currentScoringTime
          /\ (~InScoring /\ InScoring') =>
               /\ WorkerWake
               /\ clock >= currentScoringTime
               /\ ~roundScored]_vars

\* A correct answer has been handled, the worker has gone back to its wait
\* with the mutex released, and before the scoring time the round is
\* complete and unscored with the winner's point still pending.
C25_Witness ==
    /\ roundComplete
    /\ ~roundScored
    /\ winnerThisRound = "alice"
    /\ hist.correctStart = {"alice"}
    /\ cpc = "idle"
    /\ wpc = "waiting"
    /\ sent.kind = "question"
    /\ clock < currentScoringTime
    /\ PointDelta(contestants, "alice") = 1
    /\ Points(contestants, "alice") = 0

\* The rounds opened so far, before the worker opens one more: each start
\* of the worker opens a round, and a worker that is not stopped opens one
\* more per minQuestionCooldown that passes.
PlayRounds == 0..((MaxCallbacks - 1) + (MaxPlayTime \div minQuestionCooldown))

\* The worker has been told to stop, or the object is gone.
Stopped == stopWorker \/ teardown # "none"

\* The question of round r is the last message sent.
QuestionOut(r) == hist.round = r /\ sent.kind = "question" /\ wpc # "send_question"

\* C26: StartWorker makes the question due at once, so the worker's first
\* wake opens a round; and unless the worker is stopped, a started worker
\* sends a question, the sending of a question (line 325) is followed by
\* the results of its round, and the results by the question of the next
\* round, for as long as the clock reaches the times they are due.
C26_RoundsGoOn ==
    /\ [][/\ (~joinable /\ joinable') => nextQuestionTime' = clock
          /\ (WorkerWake /\ hist.round = 0) => wpc' = "clear_participants"]_vars
    /\ \A r \in PlayRounds :
           /\ (wpc = "lock" /\ hist.round = r)
                  ~> (QuestionOut(r + 1) \/ Stopped)
           /\ (wpc = "relock" /\ hist.round = r
                   /\ currentScoringTime <= MaxPlayTime)
                  ~> ((hist.round = r /\ hist.result.round = r
                           /\ sent.kind = "results") \/ Stopped)
           /\ (hist.round = r /\ hist.result.round = r /\ r > 0
                   /\ nextQuestionTime <= MaxPlayTime)
                  ~> (QuestionOut(r + 1) \/ Stopped)

\* The worker was started once and never stopped, and the results of the
\* third round are out after the questions and results of the rounds before.
C26_Witness ==
    /\ hist.round = 3
    /\ hist.result.round = 3
    /\ sent.kind = "results"
    /\ roundScored
    /\ nCallbacks = 1
    /\ ~Stopped

=============================================================================
